---- MODULE Spec2Model ----
(***************************************************************************)
(* Album/image metadata lifecycle of the admin panel (admin/server.js).    *)
(*                                                                         *)
(* Text is modelled as a sequence of tokens.  A token is a one-character   *)
(* string ("a", " ", the double quote, ...) or an atomic piece of text     *)
(* that no operation of the program looks into ("img", ".jpg", a date,     *)
(* a host name).  File names, URLs, front-matter values and slugs are all  *)
(* token sequences, so that endsWith, split, slice, trim, replace and      *)
(* padStart are computed as the code computes them.  A value the code      *)
(* binds to a local constant is the parameter of a helper operator here.   *)
(***************************************************************************)
EXTENDS Integers, Sequences, FiniteSets, TLC

(***************************************************************************)
(* Bounds of the model.                                                    *)
(***************************************************************************)
MaxFiles == 2          \* files submitted in one createAlbum / addImages
MaxImages == 3         \* images a descriptor may hold
MaxRemoteFailures == 1 \* remote deletions that fail within one operation
MaxUpdates == 1        \* metadata updates in one behaviour

(***************************************************************************)
(* Tokens.                                                                 *)
(***************************************************************************)
Q == "\""
APOS == "'"
BSL == "\\"
SP == " "
SLASH == "/"
COMMA == ","
LBR == "["
RBR == "]"
HYPHEN == "-"

UpperChars == {"A", "B"}
LowerChars == {"a", "b", "c", "d", "t", "u", "x"}
DigitChars == {"0", "1", "2", "3", "4", "5", "6", "7", "8", "9"}

toLowerCase(ch) == CASE ch = "A" -> "a" [] ch = "B" -> "b" [] OTHER -> ch

(***************************************************************************)
(* String primitives of the JavaScript runtime, on token sequences.        *)
(***************************************************************************)
startsWith(s, p) == Len(s) >= Len(p) /\ SubSeq(s, 1, Len(p)) = p

endsWith(s, p) == Len(s) >= Len(p) /\ SubSeq(s, Len(s) - Len(p) + 1, Len(s)) = p

RECURSIVE trimStart(_)
trimStart(s) == IF s # <<>> /\ Head(s) = SP THEN trimStart(Tail(s)) ELSE s

RECURSIVE trimEnd(_)
trimEnd(s) ==
    IF s # <<>> /\ s[Len(s)] = SP THEN trimEnd(SubSeq(s, 1, Len(s) - 1)) ELSE s

trim(s) == trimEnd(trimStart(s))

\* s.split(sep): the pieces of s between the occurrences of the token sep
RECURSIVE splitAcc(_, _, _)
splitAcc(s, sep, cur) ==
    IF s = <<>> THEN <<cur>>
    ELSE IF Head(s) = sep THEN <<cur>> \o splitAcc(Tail(s), sep, <<>>)
    ELSE splitAcc(Tail(s), sep, Append(cur, Head(s)))

split(s, sep) == splitAcc(s, sep, <<>>)

\* parts.join(sep), sep a token sequence
RECURSIVE join(_, _)
join(parts, sep) ==
    IF parts = <<>> THEN <<>>
    ELSE IF Len(parts) = 1 THEN parts[1]
    ELSE parts[1] \o sep \o join(Tail(parts), sep)

\* a.slice(-n)
sliceLast(a, n) == IF Len(a) <= n THEN a ELSE SubSeq(a, Len(a) - n + 1, Len(a))

\* s.slice(1, -1)
sliceInner(s) == SubSeq(s, 2, Len(s) - 1)

\* the elements of s at the places in I, in order: filter(...) keeps the places that pass
RECURSIVE keepFrom(_, _, _)
keepFrom(s, I, i) ==
    IF i > Len(s) THEN <<>>
    ELSE (IF i \in I THEN <<s[i]>> ELSE <<>>) \o keepFrom(s, I, i + 1)

keepAt(s, I) == keepFrom(s, I, 1)

\* a function on 1..n as the tuple of its values
tuple(f) == f \o <<>>

\* parts.map(p => p.trim())
trimAll(parts) == tuple([i \in 1..Len(parts) |-> trim(parts[i])])

\* String(n) for n >= 0
DigitChar(d) ==
    CASE d = 0 -> "0" [] d = 1 -> "1" [] d = 2 -> "2" [] d = 3 -> "3" [] d = 4 -> "4"
      [] d = 5 -> "5" [] d = 6 -> "6" [] d = 7 -> "7" [] d = 8 -> "8" [] d = 9 -> "9"

RECURSIVE String(_)
String(n) == IF n < 10 THEN <<DigitChar(n)>> ELSE Append(String(n \div 10), DigitChar(n % 10))

RECURSIVE padStart(_, _, _)
padStart(s, n, ch) == IF Len(s) >= n THEN s ELSE padStart(<<ch>> \o s, n, ch)

(***************************************************************************)
(* JavaScript values that reach the handlers: undefined, a string, an      *)
(* array of strings, as one record shape.  Numbers are [nan, n].           *)
(***************************************************************************)
Undef == [t |-> "undef", s |-> <<>>, a |-> <<>>]
Str(s) == [t |-> "str", s |-> s, a |-> <<>>]
Arr(a) == [t |-> "arr", s |-> <<>>, a |-> a]

truthy(v) == (v.t = "str" /\ v.s # <<>>) \/ v.t = "arr"

\* a || b
orElse(a, b) == IF truthy(a) THEN a ELSE b

NaN == [nan |-> TRUE, n |-> 0]
Num(n) == [nan |-> FALSE, n |-> n]

\* x || d for a number x
numOr(x, d) == IF x.nan \/ x.n = 0 THEN d ELSE x.n

DigitValue(ch) ==
    CASE ch = "0" -> 0 [] ch = "1" -> 1 [] ch = "2" -> 2 [] ch = "3" -> 3 [] ch = "4" -> 4
      [] ch = "5" -> 5 [] ch = "6" -> 6 [] ch = "7" -> 7 [] ch = "8" -> 8 [] ch = "9" -> 9

\* the leading run of digit tokens of s
RECURSIVE digitPrefix(_)
digitPrefix(s) ==
    IF s # <<>> /\ Head(s) \in DigitChars THEN <<Head(s)>> \o digitPrefix(Tail(s)) ELSE <<>>

RECURSIVE digitsValue(_, _)
digitsValue(ds, acc) ==
    IF ds = <<>> THEN acc ELSE digitsValue(Tail(ds), 10 * acc + DigitValue(Head(ds)))

parseDigits(ds, negative) ==
    IF ds = <<>> THEN NaN
    ELSE Num(IF negative THEN 0 - digitsValue(ds, 0) ELSE digitsValue(ds, 0))

parseSigned(u) ==
    IF u # <<>> /\ Head(u) = HYPHEN THEN parseDigits(digitPrefix(Tail(u)), TRUE)
    ELSE parseDigits(digitPrefix(u), FALSE)

\* parseInt(s): leading white space, an optional sign, the leading digits; NaN without a digit
parseIntText(s) == parseSigned(trimStart(s))

\* parseInt(v) of a JavaScript value: undefined and arrays of text go through String(v)
parseInt(v) ==
    CASE v.t = "str" -> parseIntText(v.s)
      [] v.t = "arr" -> IF v.a = <<>> THEN NaN ELSE parseIntText(v.a[1])
      [] OTHER -> NaN

\* `${n}` for an integer n
numText(n) == IF n < 0 THEN <<HYPHEN>> \o String(0 - n) ELSE String(n)

(***************************************************************************)
(* createSlug: slugify(name, {lower, strict, remove}).                     *)
(***************************************************************************)
RemoveChars == {"*", "+", "~", ".", "(", ")", APOS, Q, "!", ":", "@"}

\* per character: the replacement character becomes a space, the remove set is dropped
slugifyChar(ch) ==
    IF ch = HYPHEN THEN <<SP>> ELSE IF ch \in RemoveChars THEN <<>> ELSE <<ch>>

RECURSIVE slugifyChars(_)
slugifyChars(s) == IF s = <<>> THEN <<>> ELSE slugifyChar(Head(s)) \o slugifyChars(Tail(s))

\* strict: everything but letters, digits and white space is dropped
isStrictChar(ch) == ch \in UpperChars \cup LowerChars \cup DigitChars \cup {SP}

\* runs of white space become one hyphen
RECURSIVE collapseSpaces(_)
collapseSpaces(s) ==
    IF s = <<>> THEN <<>>
    ELSE IF Head(s) = SP THEN <<HYPHEN>> \o collapseSpaces(trimStart(s))
    ELSE <<Head(s)>> \o collapseSpaces(Tail(s))

strict(s) == keepAt(s, {i \in 1..Len(s) : isStrictChar(s[i])})

lower(s) == tuple([i \in 1..Len(s) |-> toLowerCase(s[i])])

createSlug(name) == lower(collapseSpaces(trim(strict(slugifyChars(name)))))

(***************************************************************************)
(* Remote storage names and public URLs.                                   *)
(***************************************************************************)
\* imgNum without the padding
imgNumUnpadded(i) == String(i)

\* String(i).padStart(3, '0')
imgNum(i) == padStart(String(i), 3, "0")

originalFileName(slug, num) == slug \o <<SLASH, "img">> \o imgNum(num) \o <<".jpg">>

thumbFileName(slug, num) == slug \o <<SLASH, "thumb", SLASH, "img">> \o imgNum(num) \o <<".webp">>

getCdnUrl(cdn, filePath) ==
    IF cdn THEN <<"https://", "cdn.example", SLASH>> \o filePath
    ELSE <<"https://", "f003.backblazeb2.com", SLASH, "file", SLASH, "bucket", SLASH>> \o filePath

\* new URL(u) throws unless u is an absolute URL
validUrl(u) == Len(u) >= 2 /\ u[1] = "https://"

\* new URL(u).pathname: from the slash after the host
pathname(u) == SubSeq(u, 3, Len(u))

\* urlPath.split('/').slice(-n).join('/')
remoteKey(u, n) == join(sliceLast(split(pathname(u), SLASH), n), <<SLASH>>)

(***************************************************************************)
(***************************************************************************)
(* The post file.  Its content is the front matter written by              *)
(* generatePostMarkdown: per key, the text after "key: ".                  *)
(***************************************************************************)
VirtualPhotography == <<"Virtual Photography">>

Today == <<"2021-06-15">>

LayoutKeys ==
    {"cardImage", "cardOffset", "cardOffsetX", "cardZoom",
     "bannerImage", "bannerOffset", "bannerOffsetX", "bannerZoom"}

\* the default of a layout key, in generatePostMarkdown and in getAlbums alike
layoutDefault(k) ==
    CASE k \in {"cardImage", "bannerImage"} -> 0
      [] k \in {"cardOffset", "cardOffsetX", "bannerOffset", "bannerOffsetX"} -> 50
      [] OTHER -> 100

\* s.replace(/"/g, '\\"')
RECURSIVE escapeQuotes(_)
escapeQuotes(s) ==
    IF s = <<>> THEN <<>>
    ELSE (IF Head(s) = Q THEN <<BSL, Q>> ELSE <<Head(s)>>) \o escapeQuotes(Tail(s))

\* data.x ? `"${data.x.replace(/"/g, '\\"')}"` : dflt
quoted(v, dflt) == IF truthy(v) THEN <<Q>> \o escapeQuotes(v.s) \o <<Q>> ELSE dflt

\* .replace is called on a truthy value that is not a string: a TypeError
generateThrows(d) ==
    \E k \in {"title", "description", "developer"} : d[k].t = "arr"

tagsLine(tags) ==
    IF Len(tags) > 0 THEN <<LBR>> \o join(tags, <<COMMA, SP>>) \o <<RBR>> ELSE <<LBR, RBR>>

\* a post file: whether it begins with a block between two --- lines, and the
\* values of the lines of the block
generatePostMarkdown(d) ==
    [block |-> TRUE,
     date |-> IF truthy(d.date) THEN d.date.s ELSE Today,
     title |-> quoted(d.title, <<Q, Q>>),
     description |-> quoted(d.description, <<Q>> \o VirtualPhotography \o <<Q>>),
     developer |-> quoted(d.developer, <<Q, Q>>),
     tags |-> tagsLine(d.tags),
     slug |-> d.slug,
     layout |-> [k \in LayoutKeys |-> numText(numOr(d.layout[k], layoutDefault(k)))]]

\* one pair of enclosing quotes is removed
unquote(v) ==
    IF (startsWith(v, <<Q>>) /\ endsWith(v, <<Q>>))
       \/ (startsWith(v, <<APOS>>) /\ endsWith(v, <<APOS>>))
    THEN sliceInner(v) ELSE v

\* a bracketed value is split at its commas
listOrText(u) ==
    IF startsWith(u, <<LBR>>) /\ endsWith(u, <<RBR>>)
    THEN Arr(trimAll(split(sliceInner(u), COMMA)))
    ELSE Str(u)

\* one front-matter value
parseValue(raw) == listOrText(unquote(trim(raw)))

\* frontMatter[key] of a post file
frontMatter(content) ==
    [date |-> parseValue(content.date),
     title |-> parseValue(content.title),
     description |-> parseValue(content.description),
     developer |-> parseValue(content.developer),
     tags |-> parseValue(content.tags),
     slug |-> parseValue(content.slug),
     layout |-> [k \in LayoutKeys |-> parseValue(content.layout[k])]]

\* the tags of an album, from frontMatter.tags
parseTags(v) ==
    IF ~truthy(v) THEN <<>>
    ELSE IF v.t = "arr" THEN v.a
    ELSE trimAll(split(v.s, COMMA))

(***************************************************************************)
(* The descriptor file: an array of entries.  An entry is null (what       *)
(* JSON.stringify writes for undefined) or an object; a key the object     *)
(* lacks reads as the empty text or 0, which the || chains of the reader   *)
(* do not tell from absent.  aspectRatio counts ten-thousandths.           *)
(***************************************************************************)
AspectDefault == 15000

NullEntry ==
    [isNull |-> TRUE, url |-> <<>>, imageFullLink |-> <<>>, thumb |-> <<>>,
     thumbnailLink |-> <<>>, aspectRatio |-> 0, aspectRatioLegacy |-> 0,
     width |-> 0, height |-> 0]

\* JSON.stringify of an image record of the current format
entryOf(img) ==
    [isNull |-> FALSE, url |-> img.url, imageFullLink |-> <<>>, thumb |-> img.thumb,
     thumbnailLink |-> <<>>, aspectRatio |-> img.aspectRatio, aspectRatioLegacy |-> 0,
     width |-> img.width, height |-> img.height]

entriesOf(images) == tuple([i \in 1..Len(images) |-> entryOf(images[i])])

normalizeImage(e) ==
    [url |-> IF e.url # <<>> THEN e.url ELSE e.imageFullLink,
     thumb |-> IF e.thumb # <<>> THEN e.thumb ELSE e.thumbnailLink,
     aspectRatio |-> IF e.aspectRatio # 0 THEN e.aspectRatio
                     ELSE IF e.aspectRatioLegacy # 0 THEN e.aspectRatioLegacy
                     ELSE AspectDefault,
     width |-> e.width,
     height |-> e.height]

\* readImages leaving out the null entries
readImagesSkipping(entries) ==
    tuple([i \in 1..Len(keepAt(entries, {k \in 1..Len(entries) : ~entries[k].isNull})) |->
             normalizeImage(keepAt(entries, {k \in 1..Len(entries) : ~entries[k].isNull})[i])])

\* rawImages.map(...) inside try/catch: reading a key of null throws, images stays []
readImages(entries) ==
    IF \E i \in 1..Len(entries) : entries[i].isNull THEN <<>>
    ELSE tuple([i \in 1..Len(entries) |-> normalizeImage(entries[i])])

(***************************************************************************)
(* Directories: the listing of readdirSync, in the order the file system   *)
(* gives it, each entry a file name and the file's content.                *)
(***************************************************************************)
names(dir) == tuple([i \in 1..Len(dir) |-> dir[i].name])

existsSync(dir, name) == \E i \in 1..Len(dir) : dir[i].name = name

readFile(dir, name) == dir[CHOOSE i \in 1..Len(dir) : dir[i].name = name].content

insertAt(dir, entry, p) == SubSeq(dir, 1, p - 1) \o <<entry>> \o SubSeq(dir, p, Len(dir))

\* writeFileSync: an existing file keeps its place, a new one appears at place pos
writeFile(dir, name, content, pos) ==
    IF existsSync(dir, name)
    THEN tuple([i \in 1..Len(dir) |->
                  IF dir[i].name = name THEN [name |-> name, content |-> content] ELSE dir[i]])
    ELSE insertAt(dir, [name |-> name, content |-> content],
                  IF pos > Len(dir) + 1 THEN Len(dir) + 1 ELSE pos)

unlink(dir, name) == keepAt(dir, {i \in 1..Len(dir) : dir[i].name # name})

\* renameSync: the target is replaced if it exists; the renamed file appears at place pos
rename(dir, old, new, pos) ==
    IF old = new THEN dir
    ELSE writeFile(unlink(unlink(dir, new), old), new, readFile(dir, old), pos)

(***************************************************************************)
(* getAlbums, before its sort, and getAlbum.                               *)
(***************************************************************************)
\* f.replace('.json', ''): the first occurrence is removed
RECURSIVE removeFirst(_, _)
removeFirst(s, tok) ==
    IF s = <<>> THEN <<>>
    ELSE IF Head(s) = tok THEN Tail(s)
    ELSE <<Head(s)>> \o removeFirst(Tail(s), tok)

isAlbumJson(name) == endsWith(name, <<".json">>) /\ ~startsWith(name, <<"_">>)

\* readdirSync(POSTS_DIR).filter(f => f.endsWith(`${slug}.md`))
postFilesOf(posts, slug) ==
    keepAt(names(posts), {i \in 1..Len(posts) : endsWith(posts[i].name, slug \o <<".md">>)})

\* albums.push({...})
albumRecord(slug, fm, images, postFile, jsonFile) ==
    [slug |-> slug,
     title |-> orElse(fm.title, Str(slug)),
     description |-> orElse(fm.description, Str(VirtualPhotography)),
     developer |-> orElse(fm.developer, Str(<<>>)),
     date |-> orElse(fm.date, Str(<<>>)),
     tags |-> parseTags(fm.tags),
     layout |-> [k \in LayoutKeys |-> numOr(parseInt(fm.layout[k]), layoutDefault(k))],
     images |-> images,
     imageCount |-> Len(images),
     postFile |-> postFile,
     jsonFile |-> jsonFile]

albumRead(posts, data, jsonFile, slug, postFile) ==
    albumRecord(slug, frontMatter(readFile(posts, postFile)),
                readImages(readFile(data, jsonFile)), postFile, jsonFile)

albumSlugged(posts, data, jsonFile, slug) ==
    albumRead(posts, data, jsonFile, slug, postFilesOf(posts, slug)[1])

\* the album of one descriptor that has a post file
albumOf(posts, data, jsonFile) ==
    albumSlugged(posts, data, jsonFile, removeFirst(jsonFile, ".json"))

\* postContent.match(/^---\r?\n([\s\S]*?)\r?\n---/)
frontMatterMatch(content) == content.block

\* listedJson taking any post file for a post with front matter
listedJsonUnmatched(posts, data) ==
    keepAt(names(data),
           {i \in 1..Len(data) :
              /\ isAlbumJson(data[i].name)
              /\ postFilesOf(posts, removeFirst(data[i].name, ".json")) # <<>>})

\* the descriptors that have a post file with front matter, in listing order
listedJson(posts, data) ==
    keepAt(names(data),
           {i \in 1..Len(data) :
              /\ isAlbumJson(data[i].name)
              /\ postFilesOf(posts, removeFirst(data[i].name, ".json")) # <<>>
              /\ frontMatterMatch(
                   readFile(posts, postFilesOf(posts, removeFirst(data[i].name, ".json"))[1]))})

albumsOf(posts, data, listed) ==
    tuple([i \in 1..Len(listed) |-> albumOf(posts, data, listed[i])])

getAlbums(posts, data) == albumsOf(posts, data, listedJson(posts, data))

hasSlug(listed, slug) == \E i \in 1..Len(listed) : removeFirst(listed[i], ".json") = slug

hasAlbum(posts, data, slug) == hasSlug(listedJson(posts, data), slug)

\* albums.find(a => a.slug === slug)
findAlbum(albums, slug) ==
    albums[CHOOSE i \in 1..Len(albums) :
             albums[i].slug = slug /\ \A j \in 1..(i - 1) : albums[j].slug # slug]

\* getAlbum(slug), for a slug that hasAlbum
getAlbum(posts, data, slug) == findAlbum(getAlbums(posts, data), slug)

\* what getAlbum(slug) returns: undefined, or the album
Undefined == [exists |-> FALSE, album |-> <<>>]

foundIn(posts, data, listed, slug) ==
    IF hasSlug(listed, slug)
    THEN [exists |-> TRUE, album |-> findAlbum(albumsOf(posts, data, listed), slug)]
    ELSE Undefined

\* const album = getAlbum(req.params.slug)
lookup(posts, data, slug) == foundIn(posts, data, listedJson(posts, data), slug)

(***************************************************************************)
(* Responses, and the calls made to the remote storage during a request.   *)
(***************************************************************************)
ok200 == [status |-> 200, error |-> "", totalImages |-> 0]

failure(status, error) == [status |-> status, error |-> error, totalImages |-> 0]

Conflict == failure(400, "Album with this name already exists")
NotFound == failure(404, "Album not found")
OutOfRange == failure(400, "Invalid image index")
BadRequest == failure(400, "Invalid order array")
ServerError == failure(500, "err.message")

b2call(op, key, ok) == [op |-> op, key |-> key, ok |-> ok]

(***************************************************************************)
(* The image pipeline of createAlbum and addImages.  A submitted file is   *)
(* what the image processor reports of its buffer.  fail names the step    *)
(* that throws: 3i+1 reading the metadata of files[i], 3i+2 encoding and   *)
(* uploading its original, 3i+3 its thumbnail; 0 for none.                 *)
(***************************************************************************)
FileInfo(f) ==
    CASE f = 1 -> [mimetype |-> "image/jpeg", width |-> 1920, height |-> 1080]
      [] OTHER -> [mimetype |-> "image/png", width |-> 1000, height |-> 1500]

\* Math.round((width / height) * 10000) / 10000, in ten-thousandths
aspectRatioOf(m) == (20000 * m.width + m.height) \div (2 * m.height)

\* images.push({...})
imageRecord(cdn, slug, num, f) ==
    [url |-> getCdnUrl(cdn, originalFileName(slug, num)),
     thumb |-> getCdnUrl(cdn, thumbFileName(slug, num)),
     aspectRatio |-> aspectRatioOf(FileInfo(f)),
     width |-> FileInfo(f).width,
     height |-> FileInfo(f).height]

\* one pass of the loop that threw nothing, before the passes that follow it
pushed(img, orig, thumb, rest) ==
    [ok |-> rest.ok,
     images |-> <<img>> \o rest.images,
     calls |-> <<b2call("upload", orig, TRUE), b2call("upload", thumb, TRUE)>> \o rest.calls]

\* for (let i = 0; i < files.length; i++) {...}, from pass i on
RECURSIVE uploadLoop(_, _, _, _, _, _)
uploadLoop(cdn, slug, nextNum, files, i, fail) ==
    IF i >= Len(files) THEN [ok |-> TRUE, images |-> <<>>, calls |-> <<>>]
    ELSE IF fail = 3 * i + 1 THEN [ok |-> FALSE, images |-> <<>>, calls |-> <<>>]
    ELSE IF fail = 3 * i + 2
    THEN [ok |-> FALSE, images |-> <<>>,
          calls |-> <<b2call("upload", originalFileName(slug, nextNum + i), FALSE)>>]
    ELSE IF fail = 3 * i + 3
    THEN [ok |-> FALSE, images |-> <<>>,
          calls |-> <<b2call("upload", originalFileName(slug, nextNum + i), TRUE),
                      b2call("upload", thumbFileName(slug, nextNum + i), FALSE)>>]
    ELSE pushed(imageRecord(cdn, slug, nextNum + i, files[i + 1]),
                originalFileName(slug, nextNum + i), thumbFileName(slug, nextNum + i),
                uploadLoop(cdn, slug, nextNum, files, i + 1, fail))

(***************************************************************************)
(* The handlers, as functions of the two directories and the request.     *)
(* Each gives the directories after it, the remote calls it made and its   *)
(* response.  found is what getAlbum(req.params.slug) returned, pos the     *)
(* place the file system lists a new file at.                              *)
(***************************************************************************)
outcome(posts, data, calls, response) ==
    [posts |-> posts, data |-> data, calls |-> calls, response |-> response]

jsonName(slug) == slug \o <<".json">>

postName(date, slug) == date \o <<HYPHEN>> \o slug \o <<".md">>

defaultLayout == [k \in LayoutKeys |-> Num(layoutDefault(k))]

\* the argument of generatePostMarkdown in createAlbum
createData(body, slug) ==
    [title |-> body.title, developer |-> body.developer, description |-> body.description,
     date |-> IF truthy(body.date) THEN body.date ELSE Str(Today),
     tags |-> <<>>, slug |-> slug, layout |-> defaultLayout]

\* persistCreated writing the descriptor of whatever was uploaded before the throw
persistPartial(posts, data, d, up, posP, posD) ==
    IF ~up.ok \/ generateThrows(d)
    THEN outcome(posts, writeFile(data, jsonName(d.slug), entriesOf(up.images), posD),
                 up.calls, ServerError)
    ELSE outcome(writeFile(posts, postName(d.date.s, d.slug), generatePostMarkdown(d), posP),
                 writeFile(data, jsonName(d.slug), entriesOf(up.images), posD),
                 up.calls, ok200)

\* the descriptor is written, then the post file
persistCreated(posts, data, d, up, posP, posD) ==
    IF ~up.ok THEN outcome(posts, data, up.calls, ServerError)
    ELSE IF generateThrows(d)
    THEN outcome(posts, writeFile(data, jsonName(d.slug), entriesOf(up.images), posD),
                 up.calls, ServerError)
    ELSE outcome(writeFile(posts, postName(d.date.s, d.slug), generatePostMarkdown(d), posP),
                 writeFile(data, jsonName(d.slug), entriesOf(up.images), posD),
                 up.calls, ok200)

\* createSlugged without its check of the descriptor
createUnchecked(posts, data, cdn, body, slug, files, fail, posP, posD) ==
    persistCreated(posts, data, createData(body, slug),
                   uploadLoop(cdn, slug, 0, files, 0, fail), posP, posD)

\* if (fs.existsSync(jsonPath)) return 400
createSlugged(posts, data, cdn, body, slug, files, fail, posP, posD) ==
    IF existsSync(data, jsonName(slug)) THEN outcome(posts, data, <<>>, Conflict)
    ELSE persistCreated(posts, data, createData(body, slug),
                        uploadLoop(cdn, slug, 0, files, 0, fail), posP, posD)

\* POST /upload/create
createAlbum(posts, data, cdn, body, files, fail, posP, posD) ==
    IF body.title.t # "str" THEN outcome(posts, data, <<>>, ServerError)
    ELSE createSlugged(posts, data, cdn, body, createSlug(body.title.s), files, fail, posP, posD)

\* tags.split(',').map(t => t.trim()).filter(t => t)
nonEmpty(parts) == keepAt(parts, {i \in 1..Len(parts) : parts[i] # <<>>})

\* the tags of an update request
parsedTagsOf(album, tags) ==
    IF tags.t = "str" THEN nonEmpty(trimAll(split(tags.s, COMMA)))
    ELSE IF tags.t = "arr" THEN tags.a
    ELSE album.tags

\* x !== undefined ? x : old
provided(x, old) == IF x.t # "undef" THEN x ELSE old

dateChanged(album, body) == truthy(body.date) /\ body.date # album.date

newPostPath(album, body) ==
    IF dateChanged(album, body) THEN postName(body.date.s, album.slug) ELSE album.postFile

\* the posts directory after the rename of the post file
renamedPosts(posts, album, body, pos) ==
    IF dateChanged(album, body) /\ existsSync(posts, album.postFile)
    THEN rename(posts, album.postFile, newPostPath(album, body), pos)
    ELSE posts

\* the argument of generatePostMarkdown in updateAlbum
mergedData(album, body) ==
    [title |-> orElse(body.title, album.title),
     description |-> provided(body.description, album.description),
     developer |-> provided(body.developer, album.developer),
     date |-> orElse(body.date, album.date),
     tags |-> parsedTagsOf(album, body.tags),
     slug |-> album.slug,
     layout |-> [k \in LayoutKeys |->
                   IF body.layout[k].t # "undef" THEN parseInt(body.layout[k])
                   ELSE Num(album.layout[k])]]

writeMerged(renamed, data, postPath, merged, pos) ==
    IF generateThrows(merged) THEN outcome(renamed, data, <<>>, ServerError)
    ELSE outcome(writeFile(renamed, postPath, generatePostMarkdown(merged), pos),
                 data, <<>>, ok200)

updateFound(posts, data, album, body, pos) ==
    writeMerged(renamedPosts(posts, album, body, pos), data, newPostPath(album, body),
                mergedData(album, body), pos)

\* POST /upload/update/:slug
updateAlbum(posts, data, found, body, pos) ==
    IF ~found.exists THEN outcome(posts, data, <<>>, NotFound)
    ELSE updateFound(posts, data, found.album, body, pos)

\* fs.writeFileSync(jsonPath, JSON.stringify(images)) and the response
writeAdded(posts, data, album, up) ==
    IF ~up.ok THEN outcome(posts, data, up.calls, ServerError)
    ELSE outcome(posts, writeFile(data, album.jsonFile, entriesOf(album.images \o up.images), 1),
                 up.calls, [ok200 EXCEPT !.totalImages = Len(album.images) + Len(up.images)])

\* addFound numbering the new files from one past the image count
addFoundPastCount(posts, data, cdn, album, files, fail) ==
    writeAdded(posts, data, album,
               uploadLoop(cdn, album.slug, Len(album.images) + 1, files, 0, fail))

addFound(posts, data, cdn, album, files, fail) ==
    writeAdded(posts, data, album,
               uploadLoop(cdn, album.slug, Len(album.images), files, 0, fail))

\* POST /upload/add-images/:slug
addImages(posts, data, cdn, found, files, fail) ==
    IF ~found.exists THEN outcome(posts, data, <<>>, NotFound)
    ELSE addFound(posts, data, cdn, found.album, files, fail)

\* await deleteFromB2(originalFile); await deleteFromB2(thumbFile): the first throw ends both
deleteBoth(originalFile, thumbFile, failKeys) ==
    IF originalFile \in failKeys THEN <<b2call("delete", originalFile, FALSE)>>
    ELSE <<b2call("delete", originalFile, TRUE),
           b2call("delete", thumbFile, thumbFile \notin failKeys)>>

\* the body of the try block of deleteAlbum for one image: new URL(...) may throw as well
deletePair(url, thumb, failKeys) ==
    IF ~validUrl(url) \/ ~validUrl(thumb) THEN <<>>
    ELSE deleteBoth(remoteKey(url, 2), remoteKey(thumb, 3), failKeys)

\* album.images.filter((_, i) => i !== index)
removeAt(images, index) ==
    SubSeq(images, 1, index) \o SubSeq(images, index + 2, Len(images))

\* new URL(...) is outside the inner try block: its throw reaches the outer catch
deleteAt(posts, data, album, index, image, failKeys) ==
    IF ~validUrl(image.url) \/ ~validUrl(image.thumb)
    THEN outcome(posts, data, <<>>, ServerError)
    ELSE outcome(posts,
                 writeFile(data, album.jsonFile, entriesOf(removeAt(album.images, index)), 1),
                 deleteBoth(remoteKey(image.url, 2), remoteKey(image.thumb, 3), failKeys),
                 ok200)

\* index < 0 || index >= length is false of NaN; album.images[NaN].url throws
deleteIndexed(posts, data, album, index, failKeys) ==
    IF ~index.nan /\ (index.n < 0 \/ index.n >= Len(album.images))
    THEN outcome(posts, data, <<>>, OutOfRange)
    ELSE IF index.nan THEN outcome(posts, data, <<>>, ServerError)
    ELSE deleteAt(posts, data, album, index.n, album.images[index.n + 1], failKeys)

\* POST /upload/delete-image/:slug/:index
deleteImage(posts, data, found, indexText, failKeys) ==
    IF ~found.exists THEN outcome(posts, data, <<>>, NotFound)
    ELSE deleteIndexed(posts, data, found.album, parseIntText(indexText), failKeys)

\* for (const image of album.images) { try {...} catch {...} }
RECURSIVE deleteAll(_, _)
deleteAll(images, failKeys) ==
    IF images = <<>> THEN <<>>
    ELSE deletePair(Head(images).url, Head(images).thumb, failKeys)
         \o deleteAll(Tail(images), failKeys)

deleteFound(posts, data, album, failKeys) ==
    outcome(unlink(posts, album.postFile), unlink(data, album.jsonFile),
            deleteAll(album.images, failKeys), ok200)

\* POST /upload/delete/:slug
deleteAlbum(posts, data, found, failKeys) ==
    IF ~found.exists THEN outcome(posts, data, <<>>, NotFound)
    ELSE deleteFound(posts, data, found.album, failKeys)

\* the index that the property name key denotes in an array of len elements, or -1
propertyIndex(len, key) ==
    IF \E n \in 0..(len - 1) : String(n) = key
    THEN CHOOSE n \in 0..(len - 1) : String(n) = key
    ELSE 0 - 1

\* elementAt counting the images from 1
elementAtOneBased(images, n) == IF n < 1 THEN NullEntry ELSE entryOf(images[n])

\* JSON.stringify writes null for undefined
elementAt(images, n) == IF n < 0 THEN NullEntry ELSE entryOf(images[n + 1])

\* album.images[i] for an element i of the order array: the property named String(i)
imageAt(images, elem) == elementAt(images, propertyIndex(Len(images), elem.key))

\* order.map(i => album.images[i])
newImages(images, elems) ==
    tuple([j \in 1..Len(elems) |-> imageAt(images, elems[j])])

reorderFound(posts, data, album, order) ==
    IF ~order.isArray THEN outcome(posts, data, <<>>, BadRequest)
    ELSE outcome(posts, writeFile(data, album.jsonFile, newImages(album.images, order.elems), 1),
                 <<>>, ok200)

\* POST /upload/reorder/:slug
reorderImages(posts, data, found, order) ==
    IF ~found.exists THEN outcome(posts, data, <<>>, NotFound)
    ELSE reorderFound(posts, data, found.album, order)

(***************************************************************************)
(* State.  The server answers one request at a time: a handler runs to     *)
(* completion on the idle server and leaves its response; Finish sends it, *)
(* after which the server is idle again.                                   *)
(***************************************************************************)
VARIABLES
    posts,      \* POSTS_DIR: the listing, each file with its front matter
    data,       \* DATA_DIR: the listing, each descriptor with its entries
    cdn,        \* b2Config.use_cdn && b2Config.cdn_domain
    request,    \* the request being answered
    response,   \* its response
    calls,      \* the remote storage calls made while answering it
    updates     \* metadata updates answered so far

vars == <<posts, data, cdn, request, response, calls, updates>>

EmptyBody ==
    [title |-> Undef, description |-> Undef, developer |-> Undef, date |-> Undef,
     tags |-> Undef, layout |-> [k \in LayoutKeys |-> Undef]]

NoOrder == [isArray |-> FALSE, elems |-> <<>>]

NoRequest ==
    [op |-> "none", slug |-> <<>>, body |-> EmptyBody, files |-> <<>>,
     index |-> <<>>, order |-> NoOrder]

NoResponse == failure(0, "")

\* an element of an order array: a JSON integer n or not, and the property name it reads
intElem(n) == [int |-> TRUE, n |-> n, key |-> numText(n)]
otherElem(key) == [int |-> FALSE, n |-> 0, key |-> key]

orderArray(elems) == [isArray |-> TRUE, elems |-> elems]

(***************************************************************************)
(* The directories the server starts on: empty, or holding an album made   *)
(* before the admin panel, whose descriptor has an entry in the old        *)
(* format and an entry with no link at all.                                *)
(***************************************************************************)
OldSlug == <<"c">>

OldDate == <<"2018-01-01">>

OldEntries ==
    << [NullEntry EXCEPT !.isNull = FALSE,
                         !.imageFullLink = getCdnUrl(TRUE, originalFileName(OldSlug, 0)),
                         !.thumbnailLink = getCdnUrl(TRUE, thumbFileName(OldSlug, 0)),
                         !.aspectRatioLegacy = 17778],
       [NullEntry EXCEPT !.isNull = FALSE] >>

OldPost ==
    generatePostMarkdown(
        [title |-> Str(<<"c">>), developer |-> Undef, description |-> Undef,
         date |-> Str(OldDate), tags |-> <<>>, slug |-> OldSlug, layout |-> defaultLayout])

Idle ==
    /\ request = NoRequest
    /\ response = NoResponse
    /\ calls = <<>>
    /\ updates = 0

InitEmpty ==
    /\ cdn \in BOOLEAN
    /\ posts = <<>>
    /\ data = <<>>
    /\ Idle

InitOld ==
    /\ cdn \in BOOLEAN
    /\ posts = <<[name |-> postName(OldDate, OldSlug), content |-> OldPost]>>
    /\ data = <<[name |-> jsonName(OldSlug), content |-> OldEntries]>>
    /\ Idle

(***************************************************************************)
(* One action per route.                                                   *)
(***************************************************************************)
Respond(req, r) ==
    /\ request = NoRequest
    /\ request' = req
    /\ posts' = r.posts
    /\ data' = r.data
    /\ calls' = r.calls
    /\ response' = r.response
    /\ UNCHANGED cdn

Finish ==
    /\ request # NoRequest
    /\ request' = NoRequest
    /\ response' = NoResponse
    /\ calls' = <<>>
    /\ UNCHANGED <<posts, data, cdn, updates>>

Create(body, files, fail, posP, posD) ==
    /\ Respond([NoRequest EXCEPT !.op = "create", !.slug = createSlug(body.title.s),
                                 !.body = body, !.files = files],
               createAlbum(posts, data, cdn, body, files, fail, posP, posD))
    /\ UNCHANGED updates

Update(slug, found, body, pos) ==
    /\ updates < MaxUpdates
    /\ Respond([NoRequest EXCEPT !.op = "update", !.slug = slug, !.body = body],
               updateAlbum(posts, data, found, body, pos))
    /\ updates' = updates + 1

\* the descriptor stays within the bound of the model
imagesFit(found, files) ==
    found.exists => found.album.imageCount + Len(files) <= MaxImages

AddImages(slug, found, files, fail) ==
    /\ imagesFit(found, files)
    /\ Respond([NoRequest EXCEPT !.op = "addImages", !.slug = slug, !.files = files],
               addImages(posts, data, cdn, found, files, fail))
    /\ UNCHANGED updates

DeleteImage(slug, found, indexText, failKeys) ==
    /\ Respond([NoRequest EXCEPT !.op = "deleteImage", !.slug = slug, !.index = indexText],
               deleteImage(posts, data, found, indexText, failKeys))
    /\ UNCHANGED updates

DeleteAlbum(slug, found, failKeys) ==
    /\ Respond([NoRequest EXCEPT !.op = "deleteAlbum", !.slug = slug],
               deleteAlbum(posts, data, found, failKeys))
    /\ UNCHANGED updates

Reorder(slug, found, order) ==
    /\ Respond([NoRequest EXCEPT !.op = "reorder", !.slug = slug, !.order = order],
               reorderImages(posts, data, found, order))
    /\ UNCHANGED updates

(***************************************************************************)
(* The requests the specifications draw from.                              *)
(***************************************************************************)
TitleB == <<"b">>
TitleUpperB == <<"B">>
TitleAB == <<"A", SP, "b">>
TitleBQuote == <<"b", Q>>

SlugB == createSlug(TitleB)
SlugAB == createSlug(TitleAB)

Date1 == <<"2019-01-01">>
Date2 == <<"2020-01-01">>

\* n submitted files, alternately the one and the other file
fileSeq(n) == tuple([i \in 1..n |-> 2 - (i % 2)])

FileSeqs == {fileSeq(n) : n \in 0..MaxFiles}

FailSteps(files) == 0..(3 * Len(files))

IndexTexts == {String(i) : i \in 0..MaxImages} \cup {<<HYPHEN, "1">>, <<"x">>}

\* order arrays: the permutations of a 3-image album, orders that omit or repeat
\* an image, an index past the end, elements that are no integers, and no array
Orders ==
    {NoOrder}
    \cup {orderArray(<<intElem(q[1]), intElem(q[2]), intElem(q[3])>>) :
            q \in {p \in [1..3 -> 0..2] : p[1] # p[2] /\ p[2] # p[3] /\ p[1] # p[3]}}
    \cup {orderArray(q) :
            q \in {<<>>, <<intElem(0)>>, <<intElem(1), intElem(0)>>, <<intElem(1), intElem(1)>>,
                   <<intElem(0), intElem(MaxImages)>>, <<otherElem(<<"x">>)>>,
                   <<otherElem(<<"1">>), intElem(0)>>}}

\* the remote names of the images whose names can be derived
remoteKeysOf(images) ==
    UNION {IF validUrl(images[i].url) /\ validUrl(images[i].thumb)
           THEN {remoteKey(images[i].url, 2), remoteKey(images[i].thumb, 3)}
           ELSE {} : i \in 1..Len(images)}

imagesOf(found) == IF found.exists THEN found.album.images ELSE <<>>

keysAt(images, index) ==
    IF ~index.nan /\ index.n >= 0 /\ index.n < Len(images)
    THEN SUBSET remoteKeysOf(<<images[index.n + 1]>>)
    ELSE {{}}

\* deleteImage: the sets of remote names whose deletion throws
FailKeysAt(found, indexText) == keysAt(imagesOf(found), parseIntText(indexText))

\* deleteAlbum: at most MaxRemoteFailures deletions throw
FailKeys(found) ==
    {K \in SUBSET remoteKeysOf(imagesOf(found)) : Cardinality(K) <= MaxRemoteFailures}

\* the requests for one album, found being what getAlbum returns for its slug
AddImagesTo(slug, found) ==
    \E files \in FileSeqs : \E fail \in FailSteps(files) : AddImages(slug, found, files, fail)

DeleteImageOf(slug, found) ==
    \E indexText \in IndexTexts :
      \E failKeys \in FailKeysAt(found, indexText) :
        DeleteImage(slug, found, indexText, failKeys)

DeleteAlbumOf(slug, found) ==
    \E failKeys \in FailKeys(found) : DeleteAlbum(slug, found, failKeys)

ReorderOf(slug, found) == \E order \in Orders : Reorder(slug, found, order)

\* the places the listing may show a new file at; an existing file keeps its place
Places(dir, name) == IF existsSync(dir, name) THEN {1} ELSE 1..(Len(dir) + 1)

createBody(title, developer, description, date) ==
    [EmptyBody EXCEPT !.title = title, !.developer = developer,
                      !.description = description, !.date = date]

(***************************************************************************)
(* Spec: the image lifecycle of one album on a server that starts with no  *)
(* album.                                                                  *)
(***************************************************************************)
Init == InitEmpty

CreateB ==
    /\ request = NoRequest
    /\ \E title \in {TitleB, TitleUpperB}, files \in FileSeqs :
         \E fail \in FailSteps(files) :
           \E posP \in Places(posts, postName(Date1, createSlug(title))),
              posD \in Places(data, jsonName(createSlug(title))) :
             Create(createBody(Str(title), Undef, Undef, Str(Date1)), files, fail, posP, posD)

AddImagesB ==
    /\ request = NoRequest
    /\ AddImagesTo(SlugB, lookup(posts, data, SlugB))

DeleteImageB ==
    /\ request = NoRequest
    /\ DeleteImageOf(SlugB, lookup(posts, data, SlugB))

DeleteAlbumB ==
    /\ request = NoRequest
    /\ DeleteAlbumOf(SlugB, lookup(posts, data, SlugB))

ReorderB ==
    /\ request = NoRequest
    /\ ReorderOf(SlugB, lookup(posts, data, SlugB))

Next == CreateB \/ AddImagesB \/ DeleteImageB \/ DeleteAlbumB \/ ReorderB \/ Finish

Spec == Init /\ [][Next]_vars

(***************************************************************************)
(* Properties of createAlbum, addImages and reorderImages, under Spec.     *)
(* A step that answers a request has the request in request', the          *)
(* directories before it in posts and data, and those after it in posts'   *)
(* and data'.                                                              *)
(***************************************************************************)
imagesIn(p, d, slug) == imagesOf(lookup(p, d, slug))

\* C1: createAlbum on a title whose slug already has a JSON descriptor answers
\* Conflict, writes no local file (the descriptor and the Markdown file are as
\* before) and makes no upload.
C1_ConflictLeavesFiles ==
    [][(request'.op = "create"
        /\ existsSync(data, jsonName(createSlug(request'.body.title.s))))
       => (response' = Conflict /\ posts' = posts /\ data' = data /\ calls' = <<>>)]_vars

C1_Witness ==
    /\ request.op = "create"
    /\ request.body.title = Str(TitleUpperB)
    /\ request.files # <<>>
    /\ response = Conflict
    /\ existsSync(data, jsonName(SlugB))
    /\ existsSync(posts, postName(Date1, SlugB))

C2_AllOk(cs) == \A i \in 1..Len(cs) : cs[i].ok

\* the links of the entry are those of two names that were uploaded
C2_Uploaded(cdnv, cs, entry) ==
    \E i \in 1..Len(cs), j \in 1..Len(cs) :
        /\ cs[i] = b2call("upload", cs[i].key, TRUE)
        /\ cs[j] = b2call("upload", cs[j].key, TRUE)
        /\ entry.url = getCdnUrl(cdnv, cs[i].key)
        /\ entry.thumb = getCdnUrl(cdnv, cs[j].key)

C2_NewUploaded(cdnv, cs, old, new) ==
    \A i \in (Len(old) + 1)..Len(new) : C2_Uploaded(cdnv, cs, new[i])

\* C2: createAlbum and addImages persist nothing unless every submitted file
\* was processed and uploaded: a request that is not answered with success
\* leaves both directories as they were, a throwing upload is never answered
\* with success, success comes with the two uploads of every file, and every
\* image the album has gained was uploaded.
C2_AbortBeforePersistence ==
    [][request'.op \in {"create", "addImages"}
       => /\ (response'.status # 200 => (posts' = posts /\ data' = data))
          /\ (~C2_AllOk(calls') => response' = ServerError)
          /\ (response'.status = 200 => Len(calls') = 2 * Len(request'.files))
          /\ C2_NewUploaded(cdn, calls', imagesIn(posts, data, request'.slug),
                            imagesIn(posts', data', request'.slug))]_vars

C2_Witness ==
    /\ request.op = "addImages"
    /\ Len(request.files) = 2
    /\ response = ServerError
    /\ Len(calls) = 3
    /\ ~calls[3].ok
    /\ Len(imagesIn(posts, data, request.slug)) = 1

C3_Padded(i) == <<"0", "0", DigitChar(i)>>

C3_Album(album, slug, files) ==
    /\ album.imageCount = Len(files)
    /\ Len(album.images) = Len(files)
    /\ \A i \in 0..(Len(files) - 1) :
         /\ endsWith(album.images[i + 1].url,
                     slug \o <<SLASH, "img">> \o C3_Padded(i) \o <<".jpg">>)
         /\ endsWith(album.images[i + 1].thumb,
                     slug \o <<SLASH, "thumb", SLASH, "img">> \o C3_Padded(i) \o <<".webp">>)
         /\ album.images[i + 1].width = FileInfo(files[i + 1]).width
         /\ album.images[i + 1].height = FileInfo(files[i + 1]).height
         /\ album.images[i + 1].aspectRatio = aspectRatioOf(FileInfo(files[i + 1]))

C3_Found(found) ==
    found.exists /\ C3_Album(found.album, request.slug, request.files)

\* C3: once createAlbum with N files has succeeded, getAlbum gives an album
\* with imageCount = N whose i-th image, for i in 0..N-1, is the record of the
\* i-th file, its url ending in slug/img<i in 3 digits>.jpg and its thumb in
\* slug/thumb/img<i in 3 digits>.webp.
C3_CreatedImages ==
    (request.op = "create" /\ response.status = 200)
    => C3_Found(lookup(posts, data, request.slug))

C3_Witness ==
    /\ request.op = "create"
    /\ response.status = 200
    /\ request.files = <<1, 2>>
    /\ Len(imagesIn(posts, data, SlugB)) = 2

\* the index text names a position of a list of len elements
isPosition(indexText, len) == \E k \in 0..(len - 1) : indexText = String(k)

positionOf(indexText, len) == CHOOSE k \in 0..(len - 1) : indexText = String(k)

\* the list without its element at position k, counted from 0
without(images, k) ==
    tuple([i \in 1..(Len(images) - 1) |-> IF i <= k THEN images[i] ELSE images[i + 1]])

C6_Removed(old, new, k) == Len(new) = Len(old) - 1 /\ new = without(old, k)

\* the step of a deleteImage, found being the album before it
C6_Deleted(found) ==
    found.exists
    => IF isPosition(request'.index, Len(found.album.images))
       THEN C6_Removed(found.album.images, imagesIn(posts', data', request'.slug),
                       positionOf(request'.index, Len(found.album.images)))
       ELSE response' = OutOfRange /\ data' = data /\ calls' = <<>>

\* C6: deleteImage(slug, k) on an existing album with 0 <= k < length shortens
\* the image list by exactly one, removing the element at position k and keeping
\* the others in order; with any index that is no position of the list it
\* answers OutOfRange, leaves the descriptor as it was and deletes nothing
\* remotely.
C6_DeleteImage ==
    [][request'.op = "deleteImage"
       => C6_Deleted(lookup(posts, data, request'.slug))]_vars

C8_Attempted(cs, key) == \E i \in 1..Len(cs) : cs[i].op = "delete" /\ cs[i].key = key

\* C8: deleteAlbum attempts the remote deletion of the original and of the
\* thumbnail of every image of the album, whichever of the deletions throw.
C8_EveryDeletionAttempted ==
    [][request'.op = "deleteAlbum"
       => \A key \in remoteKeysOf(imagesIn(posts, data, request'.slug)) :
              C8_Attempted(calls', key)]_vars

C9_InRange(order, len) ==
    /\ order.isArray
    /\ \A j \in 1..Len(order.elems) : order.elems[j].int /\ order.elems[j].n \in 0..(len - 1)

C9_Rebuilt(old, elems) == tuple([j \in 1..Len(elems) |-> old[elems[j].n + 1]])

C9_IsPermutation(elems, len) ==
    Len(elems) = len /\ {elems[j].n : j \in 1..Len(elems)} = 0..(len - 1)

C9_Count(images, x) == Cardinality({i \in 1..Len(images) : images[i] = x})

C9_SameMultiset(a, b) ==
    Len(a) = Len(b) /\ \A i \in 1..Len(a) : C9_Count(a, a[i]) = C9_Count(b, a[i])

C9_Reordered(old, new, elems) ==
    /\ new = C9_Rebuilt(old, elems)
    /\ C9_IsPermutation(elems, Len(old)) => C9_SameMultiset(old, new)

\* the step of a reorderImages, found being the album before it
C9_Step(found) ==
    (found.exists /\ C9_InRange(request'.order, Len(found.album.images)))
    => /\ response' = ok200
       /\ posts' = posts
       /\ C9_Reordered(found.album.images, imagesIn(posts', data', request'.slug),
                       request'.order.elems)

\* C9: reorderImages(slug, order) on an existing album with every order[j] in
\* range makes the image list [images[order[0]], images[order[1]], ...] of the
\* list before the call, a permutation keeping the multiset of images and the
\* length, and does not modify the Markdown file.
C9_ReorderRebuilds ==
    [][request'.op = "reorder" => C9_Step(lookup(posts, data, request'.slug))]_vars

C9_Distinct(images) == Cardinality({images[i] : i \in 1..Len(images)}) = Len(images)

C9_Witness ==
    /\ request.op = "reorder"
    /\ request.order = orderArray(<<intElem(2), intElem(0), intElem(1)>>)
    /\ response = ok200
    /\ Len(imagesIn(posts, data, request.slug)) = 3
    /\ C9_Distinct(imagesIn(posts, data, request.slug))

C10_Integers(order) ==
    order.isArray /\ \A j \in 1..Len(order.elems) : order.elems[j].int

\* C10: reorderImages on an existing album answers BadRequest and leaves the
\* descriptor as it was whenever its input is not a sequence of integers.
C10_RejectsNonIntegers ==
    [][(request'.op = "reorder" /\ ~C10_Integers(request'.order)
        /\ hasAlbum(posts, data, request'.slug))
       => (response' = BadRequest /\ data' = data)]_vars

(***************************************************************************)
(* SpecOld: the image lifecycle of the album the server finds at start-up. *)
(***************************************************************************)
AddImagesOld ==
    /\ request = NoRequest
    /\ AddImagesTo(OldSlug, lookup(posts, data, OldSlug))

DeleteImageOld ==
    /\ request = NoRequest
    /\ DeleteImageOf(OldSlug, lookup(posts, data, OldSlug))

DeleteAlbumOld ==
    /\ request = NoRequest
    /\ DeleteAlbumOf(OldSlug, lookup(posts, data, OldSlug))

ReorderOld ==
    /\ request = NoRequest
    /\ ReorderOf(OldSlug, lookup(posts, data, OldSlug))

NextOld == AddImagesOld \/ DeleteImageOld \/ DeleteAlbumOld \/ ReorderOld \/ Finish

SpecOld == InitOld /\ [][NextOld]_vars

C7_Gone(p, d, album) == ~existsSync(p, album.postFile) /\ ~existsSync(d, album.jsonFile)

C7_Rewritten(old, new, k) == response' = ok200 /\ new = without(old, k)

\* the step of a deleteImage or deleteAlbum, found being the album before it
C7_Step(found) ==
    found.exists
    => /\ (request'.op = "deleteImage"
           /\ isPosition(request'.index, Len(found.album.images)))
          => C7_Rewritten(found.album.images, imagesIn(posts', data', request'.slug),
                          positionOf(request'.index, Len(found.album.images)))
       /\ request'.op = "deleteAlbum" => C7_Gone(posts', data', found.album)

\* C7: on an existing album, deleteImage with an in-range index always rewrites
\* the descriptor without that image, and deleteAlbum always removes the local
\* Markdown and JSON files, whatever comes of deriving the remote names and of
\* the remote deletions.
C7_LocalRemovalProceeds ==
    [][request'.op \in {"deleteImage", "deleteAlbum"}
       => C7_Step(lookup(posts, data, request'.slug))]_vars

(***************************************************************************)
(* SpecMeta: the metadata of two albums.  The titles b and b" have the     *)
(* same slug.  An update request gives one field, or none.                 *)
(***************************************************************************)
MetaTitles == {TitleB, TitleAB, TitleBQuote}

MetaSlugs == {SlugB, SlugAB}

LayoutTexts == {<<"0">>, <<"7">>, <<"x">>}

UpdateBodies ==
    {EmptyBody}
    \cup {[EmptyBody EXCEPT !.title = Str(v)] : v \in {<<>>, <<"c">>}}
    \cup {[EmptyBody EXCEPT !.description = Str(v)] : v \in {<<>>, <<"x">>}}
    \cup {[EmptyBody EXCEPT !.developer = Str(v)] : v \in {<<>>, <<"d">>}}
    \cup {[EmptyBody EXCEPT !.date = Str(v)] : v \in {Date1, Date2}}
    \cup {[EmptyBody EXCEPT !.tags = v] :
            v \in {Str(<<>>), Str(<<"t", COMMA, SP, "u">>), Arr(<<>>), Arr(<< <<"t">> >>)}}
    \cup {[EmptyBody EXCEPT !.layout[k] = Str(v)] :
            k \in {"cardImage", "cardOffset", "bannerZoom"}, v \in LayoutTexts}

CreateMeta ==
    /\ request = NoRequest
    /\ \E title \in MetaTitles, given \in BOOLEAN :
         \E posP \in Places(posts, postName(Date1, createSlug(title))),
            posD \in Places(data, jsonName(createSlug(title))) :
           Create(createBody(Str(title),
                             IF given THEN Str(<<"d">>) ELSE Undef,
                             IF given THEN Str(<<"x">>) ELSE Undef,
                             Str(Date1)),
                  <<1>>, 0, posP, posD)

UpdateOf(slug, found) ==
    \E body \in UpdateBodies, pos \in 1..(Len(posts) + 1) : Update(slug, found, body, pos)

UpdateMeta ==
    /\ request = NoRequest
    /\ updates < MaxUpdates
    /\ \E slug \in MetaSlugs : UpdateOf(slug, lookup(posts, data, slug))

NextMeta == CreateMeta \/ UpdateMeta \/ Finish

SpecMeta == InitEmpty /\ [][NextMeta]_vars

\* the request gives a description and nothing else
C4_DescriptionOnly(body) ==
    /\ body.description.t # "undef"
    /\ body = [EmptyBody EXCEPT !.description = body.description]

C4_SameButDescription(before, after) ==
    [after EXCEPT !.description = before.description] = before

C4_Step(before, after) ==
    before.exists => (after.exists /\ C4_SameButDescription(before.album, after.album))

\* C4: updateAlbumMetadata(slug, {description: X}) on an existing album changes
\* only description: title, developer, date, tags, the eight layout fields,
\* the images and the backing file names read back by getAlbum as before.
C4_OnlyDescriptionChanges ==
    [][(request'.op = "update" /\ C4_DescriptionOnly(request'.body))
       => C4_Step(lookup(posts, data, request'.slug),
                  lookup(posts', data', request'.slug))]_vars

C5_Given(x, old) == IF x.t = "undef" THEN old ELSE x

C5_IsInteger(v) ==
    v.t = "str" /\ v.s # <<>> /\ \A i \in 1..Len(v.s) : v.s[i] \in DigitChars

\* tags are given as a list or not at all, layout fields as integers
C5_Plain(body) ==
    /\ body.tags.t # "str"
    /\ \A k \in LayoutKeys : body.layout[k].t = "undef" \/ C5_IsInteger(body.layout[k])

C5_Fields(album) ==
    [title |-> album.title, description |-> album.description,
     developer |-> album.developer, date |-> album.date, tags |-> album.tags,
     layout |-> album.layout, images |-> album.images]

C5_Expected(before, body) ==
    [before EXCEPT !.title = C5_Given(body.title, @),
                   !.description = C5_Given(body.description, @),
                   !.developer = C5_Given(body.developer, @),
                   !.date = C5_Given(body.date, @),
                   !.tags = IF body.tags.t = "arr" THEN body.tags.a ELSE @,
                   !.layout = [k \in LayoutKeys |->
                                 IF body.layout[k].t = "undef" THEN @[k]
                                 ELSE digitsValue(body.layout[k].s, 0)]]

C5_Step(before, after) ==
    before.exists
    => /\ after.exists
       /\ C5_Fields(after.album) = C5_Fields(C5_Expected(before.album, request'.body))

\* C5: updateAlbumMetadata is a partial update: after it, every field the
\* request gives reads back as given (an empty title, description or developer
\* and a 0 offset or zoom included) and every field it does not give reads back
\* as before.
C5_PartialUpdate ==
    [][(request'.op = "update" /\ C5_Plain(request'.body))
       => C5_Step(lookup(posts, data, request'.slug),
                  lookup(posts', data', request'.slug))]_vars

(***************************************************************************)
(* The album order file and the sort that ends getAlbums.  The order file  *)
(* is a file of DATA_DIR whose name starts with an underscore; its content *)
(* is the array that was saved, of slugs, nulls or other values.           *)
(***************************************************************************)
AlbumOrderName == <<"_", "album-order", ".json">>

Null == [t |-> "null", s |-> <<>>, a |-> <<>>]

\* order.filter(slug => slug !== null), of the file if it exists
getAlbumOrder(d) ==
    IF existsSync(d, AlbumOrderName)
    THEN keepAt(readFile(d, AlbumOrderName),
                {i \in 1..Len(readFile(d, AlbumOrderName)) :
                   readFile(d, AlbumOrderName)[i] # Null})
    ELSE <<>>

saveAlbumOrder(d, order, pos) == writeFile(d, AlbumOrderName, order, pos)

\* POST /upload/save-order
saveOrder(p, d, order, pos) ==
    IF ~order.isArray THEN outcome(p, d, <<>>, BadRequest)
    ELSE outcome(p, saveAlbumOrder(d, order.elems, pos), <<>>, ok200)

\* order.indexOf(slug): the first place, counted from 0, or -1
RECURSIVE indexFrom(_, _, _)
indexFrom(order, slug, i) ==
    IF i > Len(order) THEN 0 - 1
    ELSE IF order[i] = Str(slug) THEN i - 1
    ELSE indexFrom(order, slug, i + 1)

indexOf(order, slug) == indexFrom(order, slug, 1)

\* the time value of a date text, in days; NaN for a text that is no date
parseDate(s) ==
    CASE s = <<"2018-01-01">> -> Num(17532)
      [] s = <<"2019-01-01">> -> Num(17897)
      [] s = <<"2020-01-01">> -> Num(18262)
      [] s = <<"2021-06-15">> -> Num(18793)
      [] OTHER -> NaN

\* new Date(album.date): an array is joined with commas first
timeValue(date) == IF date.t = "arr" THEN parseDate(join(date.a, COMMA)) ELSE parseDate(date.s)

minus(x, y) == IF x.nan \/ y.nan THEN NaN ELSE Num(x.n - y.n)

\* new Date(b.date) - new Date(a.date)
byDate(a, b) == minus(timeValue(b.date), timeValue(a.date))

\* byIndex putting an album of the order after one that is not in it
byIndexLast(aIndex, bIndex, a, b) ==
    IF aIndex >= 0 /\ bIndex >= 0 THEN Num(aIndex - bIndex)
    ELSE IF aIndex >= 0 THEN Num(1)
    ELSE IF bIndex >= 0 THEN Num(0 - 1)
    ELSE byDate(a, b)

\* the comparator with a manual order, from the two indexOf results
byIndex(aIndex, bIndex, a, b) ==
    IF aIndex >= 0 /\ bIndex >= 0 THEN Num(aIndex - bIndex)
    ELSE IF aIndex >= 0 THEN Num(0 - 1)
    ELSE IF bIndex >= 0 THEN Num(1)
    ELSE byDate(a, b)

\* the comparator of albums.sort
compareAlbums(order, a, b) ==
    IF Len(order) > 0 THEN byIndex(indexOf(order, a.slug), indexOf(order, b.slug), a, b)
    ELSE byDate(a, b)

\* Array.prototype.sort is stable and reads a NaN result as 0: x goes before
\* the elements that compare greater than it
RECURSIVE insertSorted(_, _, _)
insertSorted(order, sorted, x) ==
    IF sorted = <<>> THEN <<x>>
    ELSE IF ~compareAlbums(order, sorted[Len(sorted)], x).nan
            /\ compareAlbums(order, sorted[Len(sorted)], x).n > 0
    THEN Append(insertSorted(order, SubSeq(sorted, 1, Len(sorted) - 1), x),
                sorted[Len(sorted)])
    ELSE Append(sorted, x)

RECURSIVE sortFrom(_, _, _)
sortFrom(order, albums, n) ==
    IF n = 0 THEN <<>>
    ELSE insertSorted(order, sortFrom(order, albums, n - 1), albums[n])

sortAlbums(albums, order) == sortFrom(order, albums, Len(albums))

\* getAlbums() with its sort: what the dashboard lists
listAlbums(p, d) == sortAlbums(getAlbums(p, d), getAlbumOrder(d))

SaveOrder(order, pos) ==
    /\ Respond([NoRequest EXCEPT !.op = "saveOrder", !.order = order],
               saveOrder(posts, data, order, pos))
    /\ UNCHANGED updates

(***************************************************************************)
(* SpecOrder: up to three albums of different dates, created in any order  *)
(* and listed by the directory in any order, and a manual order saved at   *)
(* any time.  The dates are calendar dates, as the data model has them.    *)
(***************************************************************************)
TitleA == <<"a">>
TitleC == <<"c">>

OrderTitles == {TitleA, TitleB, TitleC}

\* the arrays saved: none, empty, the albums a and b exchanged, and c twice
\* among a null and a slug of no album
SavedOrders ==
    {NoOrder, orderArray(<<>>),
     orderArray(<<Str(TitleB), Str(TitleA)>>),
     orderArray(<<Null, Str(TitleC), Str(<<"x">>), Str(TitleC)>>)}

\* the dates an album is created with: b of 2019, a of the same date or
\* newer, c older or newer than both
OrderDates(title) ==
    CASE title = TitleA -> {Date1, Date2}
      [] title = TitleC -> {OldDate, Today}
      [] OTHER -> {Date1}

\* the listing of POSTS_DIR has no part in the sort: a new post file is listed last
CreateOrder ==
    /\ request = NoRequest
    /\ \E title \in OrderTitles :
         \E date \in OrderDates(title) :
           \E posD \in Places(data, jsonName(createSlug(title))) :
             Create(createBody(Str(title), Undef, Undef, Str(date)), <<>>, 0,
                    Len(posts) + 1, posD)

SaveOrderAny ==
    /\ request = NoRequest
    /\ \E order \in SavedOrders :
         \E pos \in Places(data, AlbumOrderName) : SaveOrder(order, pos)

NextOrder == CreateOrder \/ SaveOrderAny \/ Finish

SpecOrder == InitEmpty /\ [][NextOrder]_vars

C11_InOrder(order, slug) == \E k \in 1..Len(order) : order[k] = Str(slug)

C11_Place(order, slug) ==
    CHOOSE k \in 1..Len(order) :
      order[k] = Str(slug) /\ \A j \in 1..(k - 1) : order[j] # Str(slug)

\* later in the list: not before an album of the order unless placed after it
\* there, and not newer than an earlier album outside the order
C11_Sorted(list, order) ==
    \A i, j \in 1..Len(list) :
      i < j =>
        /\ C11_InOrder(order, list[j].slug)
           => /\ C11_InOrder(order, list[i].slug)
              /\ C11_Place(order, list[i].slug) < C11_Place(order, list[j].slug)
        /\ (~C11_InOrder(order, list[i].slug) /\ ~C11_InOrder(order, list[j].slug))
           => /\ ~timeValue(list[i].date).nan
              /\ ~timeValue(list[j].date).nan
              /\ timeValue(list[i].date).n >= timeValue(list[j].date).n

C11_AllAlbums(list, albums) ==
    /\ Len(list) = Len(albums)
    /\ \A i \in 1..Len(albums) : \E j \in 1..Len(list) : list[j] = albums[i]

\* C11: listAlbums returns every album once: first the albums whose slug is
\* in the manual order, in the sequence of the order whatever their dates,
\* then the albums that are not in it, by date descending; with no manual
\* order all albums by date descending.  Slugs of the order that are the slug
\* of no album, and nulls, change nothing.
C11_ListAlbums ==
    \A albums \in {getAlbums(posts, data)}, order \in {getAlbumOrder(data)} :
      \A list \in {sortAlbums(albums, order)} :
        C11_Sorted(list, order) /\ C11_AllAlbums(list, albums)

C11_Slugs(list) == tuple([i \in 1..Len(list) |-> list[i].slug])

C11_Dates(list) == tuple([i \in 1..Len(list) |-> list[i].date.s])

\* the order [b, a] lists b of 2019 before a of 2020, and c of 2018 after both
\* though the directory lists c first
C11_Witness ==
    /\ getAlbumOrder(data) = <<Str(TitleB), Str(TitleA)>>
    /\ C11_Slugs(getAlbums(posts, data)) = <<TitleC, TitleA, TitleB>>
    /\ C11_Slugs(listAlbums(posts, data)) = <<TitleB, TitleA, TitleC>>
    /\ C11_Dates(listAlbums(posts, data)) = <<Date1, Date2, OldDate>>

(***************************************************************************)
(* Properties of addImages, under Spec.                                    *)
(***************************************************************************)
\* the images from place m + 1 on are the records of the files, named from m on
C12_New(images, slug, m, files) ==
    \A j \in 0..(Len(files) - 1) :
      /\ endsWith(images[m + j + 1].url,
                  slug \o <<SLASH, "img">> \o C3_Padded(m + j) \o <<".jpg">>)
      /\ endsWith(images[m + j + 1].thumb,
                  slug \o <<SLASH, "thumb", SLASH, "img">> \o C3_Padded(m + j) \o <<".webp">>)
      /\ images[m + j + 1].width = FileInfo(files[j + 1]).width
      /\ images[m + j + 1].height = FileInfo(files[j + 1]).height
      /\ images[m + j + 1].aspectRatio = aspectRatioOf(FileInfo(files[j + 1]))

C12_Appended(old, new, slug, files) ==
    /\ Len(new) = Len(old) + Len(files)
    /\ SubSeq(new, 1, Len(old)) = old
    /\ C12_New(new, slug, Len(old), files)

C12_Step(before, after) ==
    /\ before.exists
    /\ after.exists
    /\ C12_Appended(before.album.images, after.album.images, request'.slug, request'.files)
    /\ after.album.imageCount = before.album.imageCount + Len(request'.files)
    /\ response'.totalImages = before.album.imageCount + Len(request'.files)

\* C12: an addImages that succeeds on an album of M images with N files leaves
\* the album with its M images in their order followed by the records of the
\* N files in submission order, reports totalImages = M + N, and names the
\* j-th new file img<M + j in 3 digits>: the numbering starts at the image
\* count, whatever names the images of the album have.
C12_AddImagesAppends ==
    [][(request'.op = "addImages" /\ response'.status = 200)
       => C12_Step(lookup(posts, data, request'.slug),
                   lookup(posts', data', request'.slug))]_vars

C12_Collide(images, m) ==
    \E i \in 1..m, j \in (m + 1)..Len(images) : images[i].url = images[j].url

\* a file was added under the name of an image that is still in the album, as
\* happens once an image that is not the last was removed
C12_Witness ==
    /\ request.op = "addImages"
    /\ response.status = 200
    /\ request.files # <<>>
    /\ response.totalImages = Len(imagesIn(posts, data, request.slug))
    /\ C12_Collide(imagesIn(posts, data, request.slug),
                   response.totalImages - Len(request.files))

(***************************************************************************)
(* SpecMissing: requests for slugs that have no album, on directories that *)
(* hold a descriptor with a post file that has no front matter, a          *)
(* descriptor with no post file, and a post file with no descriptor.       *)
(***************************************************************************)
NoBlockSlug == <<"c">>
NoPostSlug == <<"d">>
NoJsonSlug == <<"x">>

MissingSlugs == {SlugB, NoBlockSlug, NoPostSlug, NoJsonSlug}

\* a post file that does not begin with a front matter block
PlainPost == [OldPost EXCEPT !.block = FALSE]

InitMissing ==
    /\ cdn \in BOOLEAN
    /\ posts = <<[name |-> postName(OldDate, NoBlockSlug), content |-> PlainPost],
                 [name |-> postName(OldDate, NoJsonSlug), content |-> OldPost]>>
    /\ data = <<[name |-> jsonName(NoBlockSlug), content |-> OldEntries],
                [name |-> jsonName(NoPostSlug), content |-> OldEntries]>>
    /\ Idle

UpdateMissing ==
    /\ request = NoRequest
    /\ updates < MaxUpdates
    /\ \E slug \in MissingSlugs : UpdateOf(slug, lookup(posts, data, slug))

AddImagesMissing ==
    /\ request = NoRequest
    /\ \E slug \in MissingSlugs : AddImagesTo(slug, lookup(posts, data, slug))

DeleteImageMissing ==
    /\ request = NoRequest
    /\ \E slug \in MissingSlugs : DeleteImageOf(slug, lookup(posts, data, slug))

DeleteAlbumMissing ==
    /\ request = NoRequest
    /\ \E slug \in MissingSlugs : DeleteAlbumOf(slug, lookup(posts, data, slug))

ReorderMissing ==
    /\ request = NoRequest
    /\ \E slug \in MissingSlugs : ReorderOf(slug, lookup(posts, data, slug))

NextMissing ==
    \/ UpdateMissing
    \/ AddImagesMissing
    \/ DeleteImageMissing
    \/ DeleteAlbumMissing
    \/ ReorderMissing
    \/ Finish

SpecMissing == InitMissing /\ [][NextMissing]_vars

C13_Posts(p, slug) ==
    {i \in 1..Len(p) : endsWith(p[i].name, slug \o <<".md">>)}

\* no descriptor, no post file of a matching name, or the first post file of
\* a matching name has no front matter
C13_Missing(p, d, slug) ==
    \/ ~existsSync(d, jsonName(slug))
    \/ C13_Posts(p, slug) = {}
    \/ \E i \in C13_Posts(p, slug) :
         /\ \A j \in C13_Posts(p, slug) : i <= j
         /\ ~p[i].content.block

C13_Ops == {"update", "addImages", "deleteImage", "deleteAlbum", "reorder"}

\* C13: updateAlbumMetadata, addImages, deleteImage, deleteAlbum and
\* reorderImages for a slug that has no descriptor, no matching post file or a
\* post file without front matter are answered NotFound, leave both
\* directories as they were and call the remote storage not once.
C13_NotFound ==
    [][(request'.op \in C13_Ops /\ C13_Missing(posts, data, request'.slug))
       => (response' = NotFound /\ posts' = posts /\ data' = data /\ calls' = <<>>)]_vars

\* a reorder with an order array for the album whose post file has no front matter
C13_Witness ==
    /\ request.op = "reorder"
    /\ request.slug = NoBlockSlug
    /\ request.order.isArray
    /\ existsSync(data, jsonName(NoBlockSlug))
    /\ C13_Posts(posts, NoBlockSlug) # {}
    /\ response = NotFound

(***************************************************************************)
(* The post file of an album, under SpecMeta.                              *)
(***************************************************************************)
C14_Own(album) == album.postFile = postName(album.date.s, album.slug)

C14_Backed(albums) ==
    /\ \A i \in 1..Len(albums) : C14_Own(albums[i])
    /\ \A i, j \in 1..Len(albums) : i # j => albums[i].postFile # albums[j].postFile

\* C14: every album that listAlbums returns is backed by the post file named
\* <date>-<slug>.md of its own date and slug, and no two albums are backed by
\* the same post file, also when the slug of one ends with the slug of the
\* other.
C14_OwnPostFile == C14_Backed(listAlbums(posts, data))

\* the post file of an album of another slug than the one requested
C14_Other(p, d, slug) ==
    {i \in 1..Len(p) :
       \E other \in MetaSlugs \ {slug} :
         /\ p[i].name = postName(Date1, other)
         /\ existsSync(d, jsonName(other))}

\* an update leaves the post files of the albums of other slugs as they were
C14_UpdateKeepsOthers ==
    [][request'.op = "update"
       => \A i \in C14_Other(posts, data, request'.slug) :
            /\ existsSync(posts', posts[i].name)
            /\ readFile(posts', posts[i].name) = posts[i].content]_vars

(***************************************************************************)
(* What an album reads back as after reorderImages, under Spec.            *)
(***************************************************************************)
C15_FromBefore(old, new) ==
    \A k \in 1..Len(new) : \E i \in 1..Len(old) : new[k] = old[i]

C15_Kept(before, after, m) ==
    /\ after.exists
    /\ after.album.imageCount = m
    /\ Len(after.album.images) = m
    /\ C15_FromBefore(before.album.images, after.album.images)

\* C15 as claimed: after a reorderImages that succeeds with an order array of
\* m elements, getAlbum gives an album of exactly m images, each of them an
\* image the album had before.
C15_ReorderKeepsCount ==
    [][(request'.op = "reorder" /\ response'.status = 200)
       => C15_Kept(lookup(posts, data, request'.slug),
                   lookup(posts', data', request'.slug),
                   Len(request'.order.elems))]_vars

C15_AllIndices(elems, len) == \A j \in 1..Len(elems) : elems[j].n \in 0..(len - 1)

C15_Emptied(after) ==
    after.exists /\ after.album.imageCount = 0 /\ after.album.images = <<>>

C15_Step(before, after, elems) ==
    /\ Len(readFile(data', jsonName(request'.slug))) = Len(elems)
    /\ IF C15_AllIndices(elems, Len(before.album.images))
       THEN C15_Kept(before, after, Len(elems))
       ELSE C15_Emptied(after)

\* C15, amended: after a reorderImages that succeeds with an order array of m
\* integers the descriptor has m entries; if every integer is an index of the
\* image list, getAlbum gives an album of exactly m images, each of them an
\* image the album had before; if one of them is not, getAlbum gives the album
\* with no image at all.
C15_ReorderReadsBack ==
    [][(request'.op = "reorder" /\ response'.status = 200 /\ C10_Integers(request'.order))
       => C15_Step(lookup(posts, data, request'.slug),
                   lookup(posts', data', request'.slug),
                   request'.order.elems)]_vars

\* an order of the first image and an index past the end: the descriptor has
\* the image and a null, and the album reads back empty
C15_Witness ==
    /\ request.op = "reorder"
    /\ response.status = 200
    /\ request.order = orderArray(<<intElem(0), intElem(MaxImages)>>)
    /\ Len(readFile(data, jsonName(request.slug))) = 2
    /\ ~readFile(data, jsonName(request.slug))[1].isNull
    /\ readFile(data, jsonName(request.slug))[2].isNull
    /\ imagesIn(posts, data, request.slug) = <<>>

====
